---------------------------- MODULE Spec2Model ----------------------------
(***************************************************************************)
(* Trip chaining and destination inference for farecard taps               *)
(* (generate_linked_trips.ProcessHoloData.infer_destinations).             *)
(*                                                                         *)
(* A data frame is modelled by the set or sequence of the transaction_uids *)
(* of its rows plus one function per mutable column (destination, Transfer *)
(* label, linked_UID, inference_level).  Times are whole ticks; a service  *)
(* day lasts DayLen ticks.                                                 *)
(***************************************************************************)
EXTENDS Integers, Sequences, FiniteSets, TLC

\* ------------------------------------------------------------------ bounds
MaxTaps == 4      \* taps in the valid tap table
MaxTime == 6      \* tap times of card 1 range over 1..MaxTime
MaxTime2 == 2     \* card 2, when it rides, taps at the ticks 1..MaxTime2
NumRoutes == 3
NumStops == 2
MaxPass == 3      \* passes of identify_transfers the model follows
FewTaps == 2      \* taps of the tables of the runs checked for termination

\* np.nan: the missing value of every column
NaN == -1000
\* destination_stop_code of a tap left without a destination
NoDestination == -999
\* ticks per calendar day (the scale of tap_datetime)
DayLen == 4
\* the early-morning ticks of a day, which belong to the day before
EarlyTicks == 1

Cards == {1, 2}
Routes == 1..NumRoutes
Stops == 1..NumStops
Feeds == {1, 2}

\* ------------------------------------------------------------ the inputs
VARIABLES
    taps,        \* the valid tap table, sorted by (holocard_uid, tap_datetime)
    cfg,         \* thresholds, lookup tables and inference rounds
    pc,          \* stage of infer_destinations
    dest,        \* destination_stop_code of each tap (NaN: none)
    level,       \* inference_level of each tap (NaN: none)
    Transfer,    \* "True" / "False" / "NaN" label of each tap
    prov,        \* labels of the last pass before the elapsed-time demotion
    passSet,     \* the taps the last pass of transfer_rds ran over
    remaining,   \* df of identify_transfers: taps still to label
    out,         \* out of identify_transfers: rows labelled so far
    rd,          \* pass counter of identify_transfers
    linked_UID,  \* linked_UID of each tap (NaN: none)
    pre,         \* labels and ids after the first assign_ID
    inferred,    \* rows with a destination
    to_infer,    \* rows without one
    linked_trips,\* donor pool of the fallback rounds
    round,       \* index of the next fallback round
    failed       \* the assertion that failed ("none": none)

vars == <<taps, cfg, pc, dest, level, Transfer, prov, passSet, remaining, out,
          rd, linked_UID, pre, inferred, to_infer, linked_trips, round, failed>>

\* identify_valid_records (preprocessing) has its own state
VARIABLES
    holo,        \* HoloData.df: the tap records, then with valid, invalid_reason
    double_tap_threshold_seconds,  \* of the configuration
    hpc          \* "raw": as read; "done": identify_valid_records has run

validVars == <<holo, double_tap_threshold_seconds, hpc>>

\* create_feed_info_table (gtfs) has its own state
VARIABLES
    feed_info,          \* the feed_info.txt rows: gtfs_feed, start, end date
    start_service_day,  \* of the configuration
    end_service_day,
    date_to_feed,       \* the rows (service_day, gtfs_feed) written out
    gpc                 \* "raw"; "done": table written; "abort": assert failed

feedVars == <<feed_info, start_service_day, end_service_day, date_to_feed, gpc>>

\* impute_holo_combos (expansion) has its own state
VARIABLES
    missing_holo,    \* the combinations still without avg_boardings
    apc,             \* df3: the combinations of the APC with avg_boardings
    imputed,         \* the combinations imputed, with their imputation_level
    missing_holo_n,  \* the number of combinations to impute
    impute_rd,       \* rd of impute_holo_combos: the round last run
    ipc              \* "run"; "done": returned; or the exception raised

imputeVars == <<missing_holo, apc, imputed, missing_holo_n, impute_rd, ipc>>

\* the state of the functions outside infer_destinations
otherVars == <<validVars, feedVars, imputeVars>>
\* ... which are not running
ValidIdle ==
    /\ holo = <<>>
    /\ double_tap_threshold_seconds = 0
    /\ hpc = "idle"
FeedIdle ==
    /\ feed_info = <<>>
    /\ start_service_day = 0
    /\ end_service_day = 0
    /\ date_to_feed = <<>>
    /\ gpc = "idle"
ImputeIdle ==
    /\ missing_holo = <<>>
    /\ apc = <<>>
    /\ imputed = <<>>
    /\ missing_holo_n = 0
    /\ impute_rd = 0
    /\ ipc = "idle"
OtherIdle == ValidIdle /\ FeedIdle /\ ImputeIdle

UIDs == DOMAIN taps

\* dt.hour of tap_datetime
Hour(t) == t % DayLen
\* service_day: the calendar day, minus one for the early-morning hours
\* (calendar days are numbered from 1: tick DayLen opens calendar day 2 and
\* belongs to service day 1)
ServiceDay(t) ==
    IF Hour(t) < EarlyTicks THEN t \div DayLen ELSE (t \div DayLen) + 1
\* the GTFS feed in effect on a service day (gtfs_feed_info)
FeedOf(d) == IF d <= 1 THEN 1 ELSE 2
\* dt.dayofweek of service_day
Dow(d) == d % 7

card(u) == taps[u].card
time(u) == taps[u].t
route(u) == taps[u].route
stop(u) == taps[u].stop
day(u) == ServiceDay(taps[u].t)
feed(u) == FeedOf(day(u))

\* ------------------------------------------------------------- utilities
Min(S) == CHOOSE x \in S : \A y \in S : x <= y
Max(S) == CHOOSE x \in S : \A y \in S : x >= y

\* sort_values(['holocard_uid', 'tap_datetime']) of the rows S
Before(u, v) == \/ card(u) < card(v)
                \/ card(u) = card(v) /\ time(u) < time(v)
                \/ card(u) = card(v) /\ time(u) = time(v) /\ u < v
RECURSIVE SortRows(_)
SortRows(S) ==
    IF S = {} THEN <<>>
    ELSE LET u == CHOOSE x \in S : \A y \in S \ {x} : Before(x, y)
         IN  <<u>> \o SortRows(S \ {u})

\* the sort of a frame by tap_datetime alone (stable)
RECURSIVE SortFrameByTime(_)
SortFrameByTime(s) ==
    IF s = <<>> THEN <<>>
    ELSE LET rest == SortFrameByTime(Tail(s))
             u == Head(s)
             k == Cardinality({j \in DOMAIN rest : time(rest[j]) < time(u)})
         IN  SubSeq(rest, 1, k) \o <<u>> \o SubSeq(rest, k + 1, Len(rest))

\* the same sort of a frame given as a sequence of rows (stable)
RECURSIVE SortFrame(_)
SortFrame(s) ==
    IF s = <<>> THEN <<>>
    ELSE LET rest == SortFrame(Tail(s))
             u == Head(s)
             k == Cardinality({j \in DOMAIN rest :
                     \/ card(rest[j]) < card(u)
                     \/ card(rest[j]) = card(u) /\ time(rest[j]) < time(u)})
         IN  SubSeq(rest, 1, k) \o <<u>> \o SubSeq(rest, k + 1, Len(rest))

Range(s) == {s[i] : i \in DOMAIN s}

\* the column <<f[1], ..., f[n]>>, every cell computed once
RECURSIVE Column(_, _)
Column(f, n) == IF n = 0 THEN <<>> ELSE Append(Column(f, n - 1), f[n])
\* the rows S in transaction_uid order (groupby(['transaction_uid']))
RECURSIVE SortUID(_)
SortUID(S) ==
    IF S = {} THEN <<>> ELSE <<Min(S)>> \o SortUID(S \ {Min(S)})
\* rows of sequence s satisfying Test, order kept
\* a split that keeps every row on both sides (the rows of a pass would be
\* appended to out without leaving the remaining set's count)
FilterKeepAll(s, keep) == s

RECURSIVE Filter(_, _)
Filter(s, keep) ==
    IF s = <<>> THEN <<>>
    ELSE (IF Head(s) \in keep THEN <<Head(s)>> ELSE <<>>) \o Filter(Tail(s), keep)

\* ------------------------------------------------------- GTFS tables
\* stop_codes of a route in gtfs_routes: the stops lie on a line, stop s at
\* position s, and route r serves the stops from r on (the last stop alone
\* for the routes numbered beyond the stops)
RouteStops(r) == {s \in Stops : s >= r \/ s = NumStops}
Abs(x) == IF x < 0 THEN -x ELSE x

\* gtfs_stop_to_stop_dist: the dist of row (gtfs_feed, stop_code_x,
\* stop_code_y), every pair of stops of a feed; NaN when there is no row.
\* gap is the distance between neighbouring stops
DistTable(gap, f, x, y) ==
    IF f \in Feeds /\ x \in Stops /\ y \in Stops
    THEN gap * Abs(x - y) ELSE NaN

\* gtfs_nearest_stop: the nearest_stop of row (gtfs_feed, route_id,
\* stop_code), the one stop of the route at minimal distance; NaN when
\* there is no row.  In a "sparse" table only route 1 has rows
NearTable(kind, f, r, s) ==
    IF f \in Feeds /\ r \in Routes /\ s \in Stops
       /\ RouteStops(r) # {} /\ (kind = "full" \/ r = 1)
    THEN CHOOSE x \in RouteStops(r) :
            \A y \in RouteStops(r) : Abs(x - s) <= Abs(y - s)
    ELSE NaN
NearKinds == {"full", "sparse"}

\* --------------------------------------------------------- configuration
\* transfer_time_threshold values tried (ticks)
TimeThresholds == {-1, 1, 2}
\* dist_from_previous_stop values tried
DistThresholds == {0}
\* distances between neighbouring stops tried
StopGaps == {1}

\* similar_dow of the configuration: day-of-week -> similar days
SimilarDow == (1 :> {2})

\* destination_inference_rounds: per round the columns marked 'Same', the
\* timeframe in days, the hour tolerance (NaN: not an integer), the dow rule
\* and the stop_code rule ("float": a radius in miles)
RoundParams(same, timeframe, hour, dow, stop_code) ==
    [same |-> same, timeframe |-> timeframe, hour |-> hour, dow |-> dow,
     stop_code |-> stop_code]
RoundsStrict ==
    << RoundParams({"holocard_uid", "stop_code"}, 1, NaN, "All", "Same"),
       RoundParams({"gtfs_feed", "stop_code"}, 2, 1, "Similar Days", "Same"),
       RoundParams({"gtfs_feed"}, 2, NaN, "All", "float"),
       RoundParams({"gtfs_feed"}, 3, NaN, "All", "All") >>
RoundsLoose ==
    << RoundParams({"gtfs_feed", "stop_code", "dow"}, 1, 0, "Same", "Same"),
       RoundParams({"gtfs_feed"}, 3, NaN, "All", "All") >>
RoundNames == {"strict", "loose"}
RoundList(name) == IF name = "strict" THEN RoundsStrict ELSE RoundsLoose

\* a configuration names its tables: cfg.nearest is the kind of the
\* nearest-stop table, cfg.gap the distance of the distance table and
\* cfg.rounds the name of the round list
Configs ==
    [transfer_time_threshold : TimeThresholds,
     dist_from_previous_stop : DistThresholds,
     nearest : NearKinds,
     gap : StopGaps,
     rounds : RoundNames]

\* ------------------------------------------------------ the valid taps
\* The valid taps of one card have pairwise different tap times (a tap at
\* the time of the card's previous tap is flagged as a double tap).  Card 1
\* taps at any of the ticks 1..MaxTime; card 2 does not ride, or taps at
\* every tick of 1..MaxTime2.  A tap boards a route at one of its stops;
\* card 2 boards a route at the stop of the route's number.
TapTimes ==
    { [c \in Cards |-> IF c = 1 THEN S ELSE T] :
        S \in SUBSET (1..MaxTime), T \in {{}, 1..MaxTime2} }
Boardings == {b \in Routes \X Stops : b[2] \in RouteStops(b[1])}
\* the (card, time) pairs of tt sorted by card, then time
RECURSIVE SortSlots(_)
SortSlots(S) ==
    IF S = {} THEN <<>>
    ELSE LET a == CHOOSE x \in S : \A y \in S \ {x} :
                     x[1] < y[1] \/ (x[1] = y[1] /\ x[2] < y[2])
         IN  <<a>> \o SortSlots(S \ {a})
SlotsOf(tt) == {<<c, t>> : c \in Cards, t \in 1..MaxTime} \cap
               UNION {{c} \X tt[c] : c \in Cards}
\* self.df[self.df['valid']==1] with the columns infer_destinations keeps,
\* transaction_uid = row number
TapTables ==
    UNION { LET s == SortSlots(SlotsOf(tt))
            IN  { Column([i \in 1..Len(s) |->
                            [card |-> s[i][1], t |-> s[i][2],
                             route |-> a[i][1], stop |-> a[i][2]]], Len(s)) :
                  a \in {b \in [1..Len(s) -> Boardings] :
                          \A i \in 1..Len(s) :
                              s[i][1] = 2 => b[i][1] = b[i][2]} } :
            tt \in {x \in TapTimes :
                      Cardinality(x[1]) + Cardinality(x[2]) <= MaxTaps} }

Init ==
    /\ taps \in TapTables
    /\ cfg \in Configs
    /\ pc = "round0"
    /\ dest = [u \in DOMAIN taps |-> NaN]
    /\ level = [u \in DOMAIN taps |-> NaN]
    /\ Transfer = [u \in DOMAIN taps |-> "NaN"]
    /\ prov = [u \in DOMAIN taps |-> "NaN"]
    /\ passSet = {}
    /\ remaining = {}
    /\ out = <<>>
    /\ rd = 1
    /\ linked_UID = [u \in DOMAIN taps |-> NaN]
    /\ pre = <<>>
    /\ inferred = <<>>
    /\ to_infer = <<>>
    /\ linked_trips = {}
    /\ round = 1
    /\ failed = "none"
    /\ OtherIdle

\* ----------------------------------------------------------- Round 0
\* groupby(['holocard_uid', 'service_day']).size(): taps of u's card-day
CardDay(S, u) == {v \in S : card(v) = card(u) /\ day(v) = day(u)}
\* the number of taps of the card on all its days
TransactionsPerCard(u) == Cardinality({v \in UIDs : card(v) = card(u)})

Transactions(u) == Cardinality(CardDay(UIDs, u))
\* self.df after the split: card-days with two taps or more, sorted
MultiTap == {u \in UIDs : Transactions(u) > 1}
SingleTap == {u \in UIDs : Transactions(u) = 1}

\* the shifted column alone, the last tap of a card-day left as shifted
NextTapNoWrap(rows, i) ==
    IF i < Len(rows) THEN stop(rows[i + 1]) ELSE NaN

\* next_tap_stop_code: shift(-1) over the sorted multi-tap rows, then the
\* last tap of each card-day takes the stop of the card-day's first tap
NextTapStopCode(rows, i) ==
    LET u == rows[i]
        grp == CardDay(Range(rows), u)
        shifted == IF i < Len(rows) THEN stop(rows[i + 1]) ELSE NaN
        first == CHOOSE v \in grp : time(v) = Min({time(w) : w \in grp})
        last == time(u) = Max({time(w) : w \in grp})
    IN  IF last THEN stop(first) ELSE shifted

\* left merge with gtfs_nearest_stop on (gtfs_feed, route_id, next stop)
Nearest(f, r, s) ==
    NearTable(cfg.nearest, f, r, s)

\* the place of row u in rows
RowOf(rows, u) == CHOOSE j \in DOMAIN rows : rows[j] = u

\* destination_stop_code after Round 0, for the sorted multi-tap rows
Round0Dest(rows) ==
    [u \in UIDs |->
       IF u \in Range(rows)
       THEN Nearest(feed(u), route(u), NextTapStopCode(rows, RowOf(rows, u)))
       ELSE NaN]

\* lines 221-275 (a bounded \E over a one-element set names a value)
Round0 ==
    /\ pc = "round0"
    /\ \E rows \in {SortRows(MultiTap)} :
          /\ dest' = Round0Dest(rows)
          /\ level' = [u \in UIDs |-> IF u \in Range(rows) THEN 0 ELSE NaN]
          /\ remaining' = Range(rows)
    /\ pc' = "transfers"
    /\ UNCHANGED <<taps, cfg, Transfer, prov, passSet, out, rd, linked_UID,
                   pre, inferred, to_infer, linked_trips, round, failed>>
    /\ UNCHANGED otherVars

\* ------------------------------------------------- identify_transfers
\* first_tap: the earliest tap_datetime of u's card among the rows S
\* no row is taken for a card's first tap: the previous-tap columns are
\* left as shifted
NoFirstTap(S, u) == FALSE

FirstTap(S, u) == Min({time(v) : v \in {w \in S : card(w) = card(u)}})
IsFirstTap(S, u) == time(u) = FirstTap(S, u)

\* the route of the row two rows up: route_id shifted by two
PreviousTapRouteTwoUp(rows, i) ==
    IF i <= 2 \/ IsFirstTap(Range(rows), rows[i]) THEN NaN
    ELSE route(rows[i - 2])

\* the shifted columns of row i of the sorted rows, after the first tap of
\* each card had its mins_since_last_tap, previous_tap_route and
\* previous_tap_service_day set to NaN
MinsSinceLastTap(rows, i) ==
    IF i = 1 \/ IsFirstTap(Range(rows), rows[i]) THEN NaN
    ELSE time(rows[i]) - time(rows[i - 1])
PreviousTapRoute(rows, i) ==
    IF i = 1 \/ IsFirstTap(Range(rows), rows[i]) THEN NaN
    ELSE route(rows[i - 1])
PreviousTapServiceDay(rows, i) ==
    IF i = 1 \/ IsFirstTap(Range(rows), rows[i]) THEN NaN
    ELSE day(rows[i - 1])
\* previous_tap_dest_stop is shifted before any destination is cleared and
\* is not set to NaN on a card's first tap
PreviousTapDestStop(rows, d, i) == IF i = 1 THEN NaN ELSE d[rows[i - 1]]

\* line 86: the first tap of each card loses its destination_stop_code
ClearFirstTapDest(S, d) ==
    [u \in DOMAIN d |-> IF u \in S /\ IsFirstTap(S, u) THEN NaN ELSE d[u]]

\* left merge with gtfs_stop_to_stop_dist on
\* (gtfs_feed, stop_code, previous_tap_dest_stop)
Dist(f, x, y) ==
    DistTable(cfg.gap, f, x, y)

\* the criteria with the time threshold exclusive
CriteriaStrict(rows, d, i) ==
    LET u == rows[i]
        dist == Dist(feed(u), stop(u), PreviousTapDestStop(rows, d, i))
    IN  /\ PreviousTapServiceDay(rows, i) # NaN
        /\ day(u) = PreviousTapServiceDay(rows, i)
        /\ route(u) # PreviousTapRoute(rows, i)
        /\ MinsSinceLastTap(rows, i) # NaN
        /\ MinsSinceLastTap(rows, i) < cfg.transfer_time_threshold
        /\ dist # NaN
        /\ dist <= cfg.dist_from_previous_stop

\* the criteria without the comparison of the service days
CriteriaAnyDay(rows, d, i) ==
    LET u == rows[i]
        dist == Dist(feed(u), stop(u), PreviousTapDestStop(rows, d, i))
    IN  /\ PreviousTapServiceDay(rows, i) # NaN
        /\ route(u) # PreviousTapRoute(rows, i)
        /\ MinsSinceLastTap(rows, i) # NaN
        /\ MinsSinceLastTap(rows, i) <= cfg.transfer_time_threshold
        /\ dist # NaN
        /\ dist <= cfg.dist_from_previous_stop

\* (1) the criteria of a transfer; a comparison with NaN is false
Criteria(rows, d, i) ==
    LET u == rows[i]
        dist == Dist(feed(u), stop(u), PreviousTapDestStop(rows, d, i))
    IN  /\ PreviousTapServiceDay(rows, i) # NaN
        /\ day(u) = PreviousTapServiceDay(rows, i)
        /\ route(u) # PreviousTapRoute(rows, i)
        /\ MinsSinceLastTap(rows, i) # NaN
        /\ MinsSinceLastTap(rows, i) <= cfg.transfer_time_threshold
        /\ dist # NaN
        /\ dist <= cfg.dist_from_previous_stop

\* the Transfer column after step (1), in row order
Provisional(rows, d) ==
    Column([i \in DOMAIN rows |-> Criteria(rows, d, i)], Len(rows))

\* (2) linked_UID: the rows flagged isStart are numbered from 0 in row order
\* and the number is forward-filled (NaN: nothing to fill from)
RECURSIVE FFillID(_, _)
FFillID(isStart, i) ==
    IF i = 0 THEN <<>>
    ELSE LET before == FFillID(isStart, i - 1)
         IN  Append(before,
                    IF isStart[i]
                    THEN Cardinality({j \in 1..i : isStart[j]}) - 1
                    ELSE IF i = 1 THEN NaN ELSE before[i - 1])
\* the row's own tap_datetime taken for its trip's start
OwnTapTime(rows, id, i) == time(rows[i])

\* linked_trip_start_time: the earliest tap_datetime of the row's group
LinkedTripStartTime(rows, id, i) ==
    Min({time(rows[j]) : j \in {k \in DOMAIN rows : id[k] = id[i]}})

\* every row of a group with a row more than the threshold after the
\* group's start becomes NaN
DemoteTrip(rows, tr, id) ==
    Column([i \in DOMAIN rows |->
             IF \E j \in DOMAIN rows :
                   /\ id[j] = id[i]
                   /\ time(rows[j]) - LinkedTripStartTime(rows, id, j)
                          > cfg.transfer_time_threshold
             THEN "NaN"
             ELSE IF tr[i] THEN "True" ELSE "False"],
           Len(rows))

\* the Transfer column transfer_rds returns, in row order, from the column
\* tr of step (1): rows more than the threshold after their trip's start
\* become NaN
Demote(rows, tr, id) ==
    Column([i \in DOMAIN rows |->
             IF time(rows[i]) - LinkedTripStartTime(rows, id, i)
                    > cfg.transfer_time_threshold
             THEN "NaN"
             ELSE IF tr[i] THEN "True" ELSE "False"],
           Len(rows))
Negate(tr) == Column([i \in DOMAIN tr |-> ~tr[i]], Len(tr))

\* identify_transfers as a function of its rows: the Transfer column after
\* at most n passes of transfer_rds over the rows S with destinations d,
\* acc holding the labels of the rows already out
RECURSIVE IdentifyTransfers(_, _, _, _)
IdentifyTransfers(S, d, acc, n) ==
    IF S = {} \/ n = 0 THEN acc
    ELSE LET rows == SortRows(S)
             tr == Provisional(rows, d)
             id == FFillID(Negate(tr), Len(rows))
             lab == Demote(rows, tr, id)
             done == {u \in S : lab[RowOf(rows, u)] # "NaN"}
         IN  IdentifyTransfers(S \ done, ClearFirstTapDest(S, d),
                               [u \in UIDs |-> IF u \in done
                                               THEN lab[RowOf(rows, u)]
                                               ELSE acc[u]],
                               n - 1)

\* one iteration of the while loop of identify_transfers: transfer_rds over
\* the remaining rows, then the split into labelled and remaining rows
\* (the loop has no limit on its passes; the counter rd, which only feeds a
\* progress message, is counted up to MaxPass + 1 and from there on
\* alternates between MaxPass + 1 and MaxPass + 2: at least rd - 1 passes
\* are done, and a further pass stays a step)
Pass ==
    /\ pc = "transfers"
    /\ remaining # {}
    /\ \E rows \in {SortRows(remaining)} :
       \E tr \in {Provisional(rows, dest)} :
       \E id \in {FFillID(Negate(tr), Len(rows))} :
       \E lab \in {Demote(rows, tr, id)} :
       \E done \in {{u \in remaining : lab[RowOf(rows, u)] # "NaN"}} :
          /\ prov' = [u \in UIDs |->
                         IF u \in remaining
                         THEN (IF tr[RowOf(rows, u)] THEN "True" ELSE "False")
                         ELSE "NaN"]
          /\ passSet' = remaining
          /\ dest' = ClearFirstTapDest(remaining, dest)
          /\ Transfer' = [u \in UIDs |->
                            IF u \in remaining THEN lab[RowOf(rows, u)]
                            ELSE Transfer[u]]
          /\ out' = out \o Filter(rows, done)
          /\ remaining' = remaining \ done
          /\ rd' = IF rd <= MaxPass THEN rd + 1
                   ELSE IF rd = MaxPass + 1 THEN MaxPass + 2 ELSE MaxPass + 1
          /\ IF Len(out') + Cardinality(remaining') = Cardinality(MultiTap)
             THEN pc' = pc /\ failed' = failed
             ELSE pc' = "abort" /\ failed' = "identify_transfers"
    /\ UNCHANGED <<taps, cfg, level, linked_UID, pre, inferred, to_infer,
                   linked_trips, round>>
    /\ UNCHANGED otherVars

\* ------------------------------------------------ assign_linked_trips
\* every row numbered as a trip of its own
AssignIDPerRow(rows, tr) == Column([i \in DOMAIN rows |-> i - 1], Len(rows))

\* assign_ID: the linked_UID column of the sorted rows, from their labels
AssignID(rows, tr) ==
    FFillID(Column([i \in DOMAIN rows |-> tr[rows[i]] = "False"], Len(rows)),
            Len(rows))

\* 2.1 the linked_UIDs with fewer distinct routes than taps
ProblemLinkedUIDs(rows, id) ==
    {k \in Range(id) :
        Cardinality({i \in DOMAIN rows : id[i] = k}) #
        Cardinality({route(rows[i]) : i \in {j \in DOMAIN rows : id[j] = k}})}

\* reassign_transfer with the route of the tap that starts the new trip
\* left out of routes_traversed
RECURSIVE ReassignTransferNoAppend(_, _, _)
ReassignTransferNoAppend(trip, i, routes_traversed) ==
    IF i > Len(trip) THEN {}
    ELSE IF route(trip[i]) \in routes_traversed
         THEN {trip[i]} \cup ReassignTransferNoAppend(trip, i + 1, {})
         ELSE ReassignTransferNoAppend(trip, i + 1,
                                       routes_traversed \cup {route(trip[i])})

\* 2.2 reassign_transfer over the rows trip[i..] of one problem trip:
\* the rows whose Transfer is set to False
RECURSIVE ReassignTransfer(_, _, _)
ReassignTransfer(trip, i, routes_traversed) ==
    IF i > Len(trip) THEN {}
    ELSE IF route(trip[i]) \in routes_traversed
         THEN {trip[i]} \cup ReassignTransfer(trip, i + 1, {route(trip[i])})
         ELSE ReassignTransfer(trip, i + 1,
                               routes_traversed \cup {route(trip[i])})

\* the rows of the whole frame, whatever the trip
TripRowsOfFrame(rows, id, k) == rows

\* the rows of linked trip k, in row order
TripRows(rows, id, k) ==
    Filter(rows, {rows[i] : i \in {j \in DOMAIN rows : id[j] = k}})

\* the Transfer column with the problem trips left as they are
ReassignedNone(rows, id, tr) == tr

\* the Transfer column after the correction of the problem trips
Reassigned(rows, id, tr) ==
    LET forced == UNION {ReassignTransfer(TripRows(rows, id, k), 1, {}) :
                            k \in ProblemLinkedUIDs(rows, id)}
    IN  [u \in DOMAIN tr |-> IF u \in forced THEN "False" ELSE tr[u]]

\* ------------------------------------------------------ the donor pool
\* first_stage / last_stage: the rows of inferred at the earliest / latest
\* tap_datetime of their linked_UID within inferred
FirstStage(inf, id) ==
    {u \in inf : time(u) = Min({time(v) : v \in {w \in inf : id[w] = id[u]}})}
LastStage(inf, id) ==
    {u \in inf : time(u) = Max({time(v) : v \in {w \in inf : id[w] = id[u]}})}
\* linked_trips: the distinct (linked_UID, holocard_uid, service_day,
\* gtfs_feed) of inferred, merged with first_stage and last_stage
LinkedTrips(inf, id, d) ==
    { [linked_UID |-> id[u], holocard_uid |-> card(u),
       service_day |-> day(u), gtfs_feed |-> feed(u),
       tap_datetime |-> time(f), stop_code |-> stop(f),
       hour |-> Hour(time(f)), dow |-> Dow(day(f)),
       destination_stop_code |-> d[l]] :
      <<u, f, l>> \in {x \in inf \X FirstStage(inf, id) \X LastStage(inf, id) :
                         id[x[2]] = id[x[1]] /\ id[x[3]] = id[x[1]]} }

\* lines 153 and 278-307: the loop of identify_transfers has ended; the
\* single taps are labelled False, assign_linked_trips runs over all rows,
\* the rows are split by destination and the donor pool is built
AssignLinked ==
    /\ pc = "transfers"
    /\ remaining = {}
    /\ \E tr \in {[u \in UIDs |-> IF u \in SingleTap THEN "False"
                                  ELSE Transfer[u]]} :
       \E rows \in {SortFrame(out \o SortRows(SingleTap))} :
       \E id1 \in {AssignID(rows, tr)} :
       \E tr2 \in {Reassigned(rows, id1, tr)} :
       \E id2 \in {AssignID(rows, tr2)} :
       \E inf \in {{u \in Range(rows) : dest[u] # NaN}} :
       \E idOf \in {[u \in UIDs |->
                       IF u \in Range(rows) THEN id2[RowOf(rows, u)] ELSE NaN]} :
       \E pool \in {LinkedTrips(inf, idOf, dest)} :
          /\ pre' = [Transfer |-> tr,
                     linked_UID |-> [u \in UIDs |->
                        IF u \in Range(rows) THEN id1[RowOf(rows, u)] ELSE NaN]]
          /\ Transfer' = tr2
          /\ linked_UID' = idOf
          /\ inferred' = Filter(rows, inf)
          /\ to_infer' = Filter(rows, Range(rows) \ inf)
          /\ linked_trips' = pool
          /\ IF NaN \in Range(id1) \/ NaN \in Range(id2)
             THEN pc' = "abort" /\ failed' = "assign_ID"
             ELSE IF ProblemLinkedUIDs(rows, id2) # {}
             THEN pc' = "abort" /\ failed' = "assign_linked_trips"
             ELSE IF Len(inferred') + Len(to_infer') # Len(taps)
             THEN pc' = "abort" /\ failed' = "round0_count"
             ELSE IF Cardinality(pool) # Cardinality({idOf[u] : u \in inf})
             THEN pc' = "abort" /\ failed' = "linked_trips_count"
             ELSE /\ failed' = failed
                  /\ pc' = IF Len(RoundList(cfg.rounds)) = 0
                           THEN "final" ELSE "fallback"
    /\ UNCHANGED <<taps, cfg, dest, level, prov, passSet, remaining, out, rd,
                   round>>
    /\ UNCHANGED otherVars

\* ----------------------------------------------------- fallback rounds
\* the value of a join column for tap u
ColumnOf(u, col) ==
    CASE col = "holocard_uid" -> card(u)
      [] col = "service_day" -> day(u)
      [] col = "gtfs_feed" -> feed(u)
      [] col = "stop_code" -> stop(u)
      [] col = "hour" -> Hour(time(u))
      [] col = "dow" -> Dow(day(u))

\* (tap_datetime_x - tap_datetime_y).dt.days: whole days, rounded down
Days(ticks) == ticks \div DayLen

\* the linked trips that stay candidates for tap u in a round with rule
\* set p: the merge on the 'Same' columns, then the timeframe, hour and
\* day-of-week filters
Candidates(u, p, pool) ==
    {L \in pool :
        /\ \A col \in p.same : ColumnOf(u, col) = L[col]
        /\ L.destination_stop_code # NaN
        /\ Abs(Days(time(u) - L.tap_datetime)) < p.timeframe
        /\ p.hour # NaN => Abs(Hour(time(u)) - L.hour) <= p.hour
        /\ p.dow = "Similar Days" =>
              \E d \in DOMAIN SimilarDow :
                  Dow(day(u)) = d /\ L.dow \in SimilarDow[d] \cup {d}}

\* the destinations of the candidates of every tap of the round, not
\* grouped by transaction
ChoicesUngrouped(u, p, pool) ==
    {L.destination_stop_code :
        L \in UNION {Candidates(v, p, pool) : v \in Range(to_infer)}}

\* stop_ids: the destinations of the candidates of tap u; the one value is
\* assigned, or np.random.choice draws one of several
Choices(u, p, pool) ==
    {L.destination_stop_code : L \in Candidates(u, p, pool)}

\* the round number written on every row of the table
TagLevelAll(lv, got, k) == [u \in UIDs |-> k]

\* tmp['inference_level'] = rd: the rows resolved in round k carry k, the
\* other rows keep their level
TagLevel(lv, got, k) == [u \in UIDs |-> IF u \in got THEN k ELSE lv[u]]

\* the destination drawn for a tap written on every tap of its linked trip
SetDestinationOfTrip(d, got, pick) ==
    [u \in UIDs |->
       IF \E v \in got : linked_UID[v] = linked_UID[u]
       THEN pick[CHOOSE v \in got : linked_UID[v] = linked_UID[u]]
       ELSE d[u]]

\* tmp merged back on transaction_uid: the rows resolved in the round carry
\* the destination drawn for them, the other rows keep theirs
SetDestination(d, got, pick) ==
    [u \in UIDs |-> IF u \in got THEN pick[u] ELSE d[u]]

\* one iteration of the loop over destination_inference_rounds
FallbackRound ==
    /\ pc = "fallback"
    /\ round <= Len(RoundList(cfg.rounds))
    /\ LET p == RoundList(cfg.rounds)[round]
           last == round = Len(RoundList(cfg.rounds))
       IN  IF p.stop_code = "float"
           THEN \* break
                /\ pc' = "final"
                /\ UNCHANGED <<dest, level, inferred, to_infer, round, failed>>
           ELSE \E got \in {{u \in Range(to_infer) :
                               Candidates(u, p, linked_trips) # {}}} :
                \E pick \in [got -> Stops] :
                   /\ \A u \in got :
                        pick[u] \in Choices(u, p, linked_trips)
                   /\ dest' = SetDestination(dest, got, pick)
                   /\ level' = TagLevel(level, got, round)
                   /\ to_infer' = Filter(to_infer, Range(to_infer) \ got)
                   /\ inferred' = inferred \o SortUID(got)
                   /\ round' = round + 1
                   /\ IF Len(inferred') + Len(to_infer') = Len(taps)
                      THEN /\ failed' = failed
                           /\ pc' = IF last THEN "final" ELSE pc
                      ELSE pc' = "abort" /\ failed' = "round_count"
    /\ UNCHANGED <<taps, cfg, Transfer, prov, passSet, remaining, out, rd,
                   linked_UID, pre, linked_trips>>
    /\ UNCHANGED otherVars

\* lines 377-382: the rows left without a destination
Finalize ==
    /\ pc = "final"
    /\ level' = [u \in UIDs |-> IF dest[u] = NaN THEN -1 ELSE level[u]]
    /\ dest' = [u \in UIDs |-> IF dest[u] = NaN THEN NoDestination ELSE dest[u]]
    /\ pc' = "done"
    /\ UNCHANGED <<taps, cfg, Transfer, prov, passSet, remaining, out, rd,
                   linked_UID, pre, inferred, to_infer, linked_trips, round,
                   failed>>
    /\ UNCHANGED otherVars

Next == Round0 \/ Pass \/ AssignLinked \/ FallbackRound \/ Finalize

Spec == Init /\ [][Next]_vars

\* The script runs infer_destinations to its end unless an assertion stops
\* it: a step that can be taken is taken.  The runs over the tables of at
\* most FewTaps taps
InitFew == Init /\ Len(taps) <= FewTaps
FairSpec == InitFew /\ [][Next]_vars /\ WF_vars(Next)

\* --------------------------------------- assign_linked_trips by itself
\* assign_linked_trips is a function of the table and the Transfer column
\* it is given: its inputs are the valid taps with their Round 0
\* destinations and any labelling of the multi-tap rows (the single taps are
\* labelled by line 279)
Labellings(multi) == [multi -> {"True", "False"}]
InitAssign ==
    /\ taps \in TapTables
    /\ cfg \in {c \in Configs : /\ c.transfer_time_threshold = 1
                                /\ c.nearest = "full"
                                /\ c.rounds = "loose"}
    /\ pc = "transfers"
    /\ \E rows \in {SortRows(MultiTap)} :
          dest = Round0Dest(rows) /\ out = rows
    /\ level = [u \in UIDs |-> IF u \in MultiTap THEN 0 ELSE NaN]
    /\ \E multi \in {MultiTap} : \E f \in Labellings(multi) :
          Transfer = [u \in UIDs |-> IF u \in multi THEN f[u] ELSE "NaN"]
    /\ prov = [u \in UIDs |-> "NaN"]
    /\ passSet = {}
    /\ remaining = {}
    /\ rd = 2
    /\ linked_UID = [u \in UIDs |-> NaN]
    /\ pre = <<>>
    /\ inferred = <<>>
    /\ to_infer = <<>>
    /\ linked_trips = {}
    /\ round = 1
    /\ failed = "none"
    /\ OtherIdle
NextAssign == AssignLinked
SpecAssign == InitAssign /\ [][NextAssign]_vars

\* ===================================================================
\* Properties
\* ===================================================================
NoDup(s) == \A i, j \in DOMAIN s : i # j => s[i] # s[j]

\* C1: no tap is lost or duplicated at any stage of infer_destinations.
\* While identify_transfers loops, the rows labelled so far (out) and the
\* rows still remaining partition the multi-tap rows, so the assertion of
\* line 148 holds; after assign_linked_trips and after every fallback round
\* inferred and to_infer partition all valid taps, so the assertions of
\* lines 287 and 369 hold; no assertion of the pipeline fails; and in the
\* table every transaction_uid occurs once and carries one linked_UID.
C1_NoTapLostOrDuplicated ==
    /\ failed = "none"
    /\ pc # "abort"
    /\ pc = "transfers" =>
          /\ Len(out) + Cardinality(remaining) = Cardinality(MultiTap)
          /\ NoDup(out)
          /\ Range(out) \cap remaining = {}
          /\ Range(out) \cup remaining = MultiTap
    /\ pc \in {"fallback", "final", "done"} =>
          /\ Len(inferred) + Len(to_infer) = Len(taps)
          /\ NoDup(inferred \o to_infer)
          /\ Range(inferred \o to_infer) = UIDs
          /\ \A u \in UIDs : linked_UID[u] \in Nat
\* a finished run with two passes of identify_transfers, a single tap, and
\* a tap whose destination came from a fallback round
C1_Witness ==
    /\ pc = "done"
    /\ rd >= 3
    /\ SingleTap # {}
    /\ \E u \in UIDs : level[u] >= 1


\* the next tap of u's card and service day in time order; the day's first
\* tap when u is the day's last
NextOfDay(u) ==
    LET grp == {v \in UIDs : card(v) = card(u) /\ day(v) = day(u)}
        later == {v \in grp : time(v) > time(u)}
    IN  IF later = {}
        THEN CHOOSE v \in grp : \A w \in grp : time(v) <= time(w)
        ELSE CHOOSE v \in later : \A w \in later : time(v) <= time(w)

\* C7: when Round 0 has run, every tap of a card-day with two or more taps
\* has as destination the entry of the nearest-stop table for (its feed, its
\* route, the boarding stop of the next tap of the same card and service
\* day), the next tap of the day's last tap being the day's first tap (no
\* entry: no destination); the other taps have no destination.
C7_Round0Destination ==
    (pc = "transfers" /\ rd = 1) =>
        \A u \in UIDs :
            dest[u] = IF Cardinality({v \in UIDs : card(v) = card(u)
                                                   /\ day(v) = day(u)}) >= 2
                      THEN NearTable(cfg.nearest, feed(u), route(u),
                                     stop(NextOfDay(u)))
                      ELSE NaN
\* the example: (R1, stop A) then (R2, stop B) on one card-day; tap 1 ends at
\* the stop of R1 nearest to B, tap 2 (the day's last) at the stop of R2
\* nearest to A; another card rides the same day
C7_Witness ==
    /\ pc = "transfers" /\ rd = 1
    /\ cfg.nearest = "full"
    /\ \E u, v \in UIDs :
          /\ card(u) = 1 /\ card(v) = 1 /\ day(u) = day(v)
          /\ time(u) < time(v)
          /\ Transactions(u) = 2
          /\ route(u) = 1 /\ stop(u) = 1 /\ route(v) = 2 /\ stop(v) = 2
          /\ dest[u] = 2 /\ dest[v] = 2
    /\ \E w \in MultiTap : card(w) = 2

\* the taps of u's card in the set S that were tapped before u
EarlierOfCard(S, u) == {v \in S : card(v) = card(u) /\ time(v) < time(u)}
\* the four conditions of a transfer for tap u with respect to tap p, the
\* destinations being d
FourConditions(u, p, d) ==
    /\ day(u) = day(p)
    /\ route(u) # route(p)
    /\ time(u) - time(p) <= cfg.transfer_time_threshold
    /\ d[p] \in Stops
    /\ cfg.gap * Abs(stop(u) - d[p]) <= cfg.dist_from_previous_stop

\* C6: in every pass of identify_transfers a tap of the pass's set is
\* provisionally marked a transfer if and only if it has a preceding tap of
\* the same card in the set and, with respect to the immediately preceding
\* one, it is on the same service day, on a different route, at most the
\* time threshold later and boards at most the distance threshold from that
\* tap's destination as the pass finds it; a previous tap without a
\* destination makes no transfer.
C6_ProvisionalRule ==
    [][(pc = "transfers" /\ remaining # {}) =>
          \A u \in remaining :
             (prov'[u] = "True") <=>
                /\ EarlierOfCard(remaining, u) # {}
                /\ LET p == CHOOSE v \in EarlierOfCard(remaining, u) :
                               \A w \in EarlierOfCard(remaining, u) :
                                   time(w) <= time(v)
                   IN  FourConditions(u, p, dest)]_vars
\* the first pass over the taps of two service days of a card: a tap
\* exactly the threshold's minutes after its previous tap is a transfer, and
\* a tap that meets the route, time and distance conditions against a
\* previous tap of the day before is none
C6_Witness ==
    /\ pc = "transfers"
    /\ rd = 2
    /\ \E u, v \in passSet :
          /\ card(v) = card(u)
          /\ time(u) - time(v) = cfg.transfer_time_threshold
          /\ prov[u] = "True"
    /\ \E u, v \in passSet :
          /\ card(v) = card(u)
          /\ time(u) - time(v) = 1
          /\ day(u) # day(v)
          /\ route(u) # route(v)
          /\ cfg.transfer_time_threshold >= 1
          /\ \E w \in passSet : card(w) = card(v) /\ time(w) < time(v)
          /\ dest[v] \in Stops
          /\ cfg.gap * Abs(stop(u) - dest[v]) <= cfg.dist_from_previous_stop
          /\ prov[u] = "False"

\* assign_linked_trips has returned
Assigned == pc \in {"fallback", "final", "done"}
\* the taps of the linked trip of tap u
TripOf(u) == {v \in UIDs : linked_UID[v] = linked_UID[u]}
\* u is the earliest tap of its linked trip
StartsTrip(u) == \A v \in TripOf(u) : time(u) <= time(v)

\* C3: in the table assign_linked_trips returns, the earliest tap of every
\* linked_UID is labelled Transfer = False and every other tap of the trip
\* is labelled Transfer = True.
C3_FirstTapNotTransfer ==
    Assigned =>
        \A u \in UIDs :
            Transfer[u] = IF StartsTrip(u) THEN "False" ELSE "True"
\* a linked trip of two taps next to a single-tap trip of the same card
C3_Witness ==
    /\ Assigned
    /\ \E u, v, w \in UIDs :
          /\ u # v /\ linked_UID[u] = linked_UID[v]
          /\ card(w) = card(u) /\ linked_UID[w] # linked_UID[u]

\* C5: in the linked trips assign_linked_trips returns after
\* identify_transfers, every member tap other than the trip's first tap
\* (which is 0 minutes from itself) was tapped at most the transfer time
\* threshold after the trip's first tap, also when a pass demoted it and a
\* later pass labelled it.
C5_WithinThresholdOfTripStart ==
    Assigned =>
        \A u \in UIDs : \A v \in TripOf(u) :
            time(u) < time(v) =>
                time(v) - time(u) <= cfg.transfer_time_threshold
\* two passes: the first pass demoted two taps, and the second pass made
\* them a linked trip of their own
C5_Witness ==
    /\ Assigned
    /\ rd = 3
    /\ \E u, v \in passSet :
          /\ time(u) < time(v)
          /\ linked_UID[u] = linked_UID[v]
          /\ StartsTrip(u)
          /\ \E w \in UIDs : card(w) = card(u) /\ time(w) < time(u)
                             /\ day(w) = day(u)

\* assign_linked_trips has run (to its end or to a failure)
AssignRan == pc \notin {"round0", "transfers"}
\* in the labelling given to assign_linked_trips the earliest tap of every
\* card is a trip start
EarliestTapsStartTrips ==
    \A u \in UIDs :
        (\A v \in UIDs : card(v) = card(u) => time(u) <= time(v))
            => pre.Transfer[u] = "False"

\* C2: for every labelling given to assign_linked_trips in which each
\* card's earliest tap is a trip start, the taps of every linked trip it
\* returns have pairwise distinct routes, and neither assign_ID nor the
\* repeated-route assertion of line 209 fails.
C2_DistinctRoutesPerTrip ==
    (AssignRan /\ EarliestTapsStartTrips) =>
        /\ failed \notin {"assign_ID", "assign_linked_trips"}
        /\ \A u, v \in UIDs :
              (u # v /\ linked_UID[u] = linked_UID[v]) => route(u) # route(v)
\* a labelling that chains four taps of one card into one trip although
\* routes repeat, the card's earliest tap being a trip start
C2_Witness ==
    /\ AssignRan
    /\ EarliestTapsStartTrips
    /\ \E u \in UIDs :
          /\ Cardinality({v \in UIDs : pre.linked_UID[v] = pre.linked_UID[u]})
                = 4
          /\ Cardinality({linked_UID[v] : v \in UIDs}) >= 2

\* the taps given to assign_linked_trips as one trip with tap u
PreTrip(u) == {v \in UIDs : pre.linked_UID[v] = pre.linked_UID[u]}
\* the correction changed the label of tap u from True to False
Forced(u) == pre.Transfer[u] = "True" /\ Transfer[u] = "False"
\* tap w is a trip start or a forced split
StartOrSplit(w) == Forced(w) \/ \A x \in PreTrip(w) : x = w \/ Before(w, x)
\* the route of tap u is the route of a tap before u that is at or after
\* the most recent trip start or forced split before u
RepeatsSinceSplit(u) ==
    \E w \in PreTrip(u) :
        /\ Before(w, u)
        /\ StartOrSplit(w)
        /\ \A x \in PreTrip(u) :
              (Before(w, x) /\ Before(x, u)) => ~StartOrSplit(x)
        /\ \E v \in PreTrip(u) :
              /\ v = w \/ Before(w, v)
              /\ Before(v, u)
              /\ route(v) = route(u)

\* C9: the repeat-route correction forces a tap to Transfer = False
\* exactly when its route is the route of a tap of its trip at or after the
\* most recent trip start or forced split before it, and changes no other
\* label.
C9_RepeatRouteCorrection ==
    (AssignRan /\ failed # "assign_ID") =>
        \A u \in UIDs :
            /\ Transfer[u] = pre.Transfer[u] \/ Forced(u)
            /\ Forced(u) <=> RepeatsSinceSplit(u)
\* the example: a trip R1, R2, R1 becomes the trips {R1, R2} and {R1}
C9_Witness ==
    /\ AssignRan /\ failed = "none"
    /\ \E u, v, w \in UIDs :
          /\ PreTrip(u) = {u, v, w}
          /\ Before(u, v) /\ Before(v, w)
          /\ route(u) = 1 /\ route(v) = 2 /\ route(w) = 1
          /\ TripOf(u) = {u, v}
          /\ TripOf(w) = {w}

\* C4: whatever the thresholds, after at most N passes over N taps the loop
\* of identify_transfers has an empty remaining set (at least rd - 1 passes
\* are done).
C4_EndsWithinNPasses ==
    (pc = "transfers" /\ rd - 1 >= Cardinality(MultiTap)) => remaining = {}

\* C8: every linked trip of the donor pool has as origin the stop, time,
\* hour and day of week of the earliest tap among all taps of the trip, and
\* as destination the destination_stop_code of the latest tap among all
\* taps of the trip (stated when the pool has just been built).
C8_PoolOriginAndDestination ==
    (pc = "fallback" /\ round = 1) =>
        \A L \in linked_trips :
            \E f, l \in {u \in UIDs : linked_UID[u] = L.linked_UID} :
                /\ StartsTrip(f)
                /\ \A v \in TripOf(l) : time(v) <= time(l)
                /\ L.stop_code = stop(f)
                /\ L.tap_datetime = time(f)
                /\ L.hour = Hour(time(f))
                /\ L.dow = Dow(day(f))
                /\ L.destination_stop_code = dest[l]

\* C10: the number of unresolved taps never increases from one pass of
\* identify_transfers to the next nor from one fallback round to the next,
\* and both loops end: the pass loop with an empty remaining set, the round
\* loop when the configured rounds are used up.
C10_NonIncreasingAndFinite ==
    /\ [][/\ (pc = "transfers" /\ remaining # {}) =>
               Cardinality(remaining') <= Cardinality(remaining)
          /\ pc = "fallback" => Len(to_infer') <= Len(to_infer)]_vars
    /\ <>(pc \notin {"round0", "transfers"})
    /\ (pc = "fallback") ~> (pc \in {"final", "done"})

\* the rule set of the round in progress
RoundRule == RoundList(cfg.rounds)[round]
\* every configured round has run
RoundsUsedUp == round > Len(RoundList(cfg.rounds))

\* C11: a fallback round whose rule set names a stop radius (a float
\* stop_code) does not stop the round sequence, the rounds configured after
\* it still run: when the round loop has ended at such a round, no tap is
\* left in to_infer that has a candidate under a round configured after it.
C11_RadiusRoundDoesNotStop ==
    pc = "final" =>
        \A k \in (round + 1)..Len(RoundList(cfg.rounds)) :
            RoundRule.stop_code = "float" =>
                \A u \in Range(to_infer) :
                    Candidates(u, RoundList(cfg.rounds)[k], linked_trips) = {}

\* C12: a tap resolved in a fallback round receives the destination of one
\* of its candidates that passed all filters of that round, and of the one
\* candidate when only one passed.
C12_DestinationFromCandidates ==
    [][(pc = "fallback" /\ round' = round + 1) =>
          \A u \in Range(to_infer) :
             (u \notin Range(to_infer') \/ dest'[u] # dest[u]) =>
                /\ \E L \in Candidates(u, RoundRule, linked_trips) :
                      dest'[u] = L.destination_stop_code
                /\ \A L \in Candidates(u, RoundRule, linked_trips) :
                      Cardinality(Candidates(u, RoundRule, linked_trips)) = 1
                         => dest'[u] = L.destination_stop_code]_vars
\* rounds have resolved one tap that had two candidates with different
\* destinations and another tap that had one candidate
C12_Witness ==
    /\ pc \in {"fallback", "final"}
    /\ \E u, v \in UIDs :
          /\ level[u] >= 1 /\ level[v] >= 1
          /\ Cardinality(Choices(u, RoundList(cfg.rounds)[level[u]],
                                 linked_trips)) = 2
          /\ Cardinality(Candidates(v, RoundList(cfg.rounds)[level[v]],
                                    linked_trips)) = 1

\* the destination Round 0 gives tap u: the entry of the nearest-stop table
\* for a tap of a card-day with two or more taps, none for a single tap
Round0Value(u) ==
    IF u \in MultiTap
    THEN NearTable(cfg.nearest, feed(u), route(u), stop(NextOfDay(u)))
    ELSE NaN
\* a fallback round resolved tap u
ResolvedInRound(u) == level[u] \in 1..Len(RoundList(cfg.rounds))

\* C13: when infer_destinations has finished, a tap has destination -999
\* exactly when its inference_level is -1, and these taps are exactly those
\* that neither Round 0 nor a fallback round that ran resolved; no assertion
\* has failed and every tap is in the output.
C13_SentinelIffUnresolved ==
    /\ pc # "abort"
    /\ pc = "done" =>
          /\ Range(inferred \o to_infer) = UIDs
          /\ \A u \in UIDs :
                /\ dest[u] = NoDestination <=> level[u] = -1
                /\ dest[u] = NoDestination <=>
                      (Round0Value(u) = NaN /\ ~ResolvedInRound(u))

\* C16: when the fallback rounds begin, every tap of a card-day with two or
\* more taps still has the destination Round 0 gave it, so it lacks one only
\* where the nearest-stop table has no entry for (feed, route, next boarding
\* stop): identify_transfers and assign_linked_trips clear or change no
\* destination, the earliest tap of a card included.
C16_Round0DestinationKept ==
    (pc = "fallback" /\ round = 1) =>
        \A u \in MultiTap : dest[u] = Round0Value(u)

\* C14: a tap that a fallback round k gives a destination leaves to_infer,
\* joins inferred and carries inference_level k; from the start of the
\* rounds on, every step leaves the destination and the inference_level of
\* each tap outside to_infer as they are, so a tap resolved in round k keeps
\* both in the later rounds and a tap with a Round 0 destination keeps
\* inference_level 0 to the end.
C14_ResolvedOnceAndKept ==
    [][/\ (pc = "fallback" /\ round' = round + 1) =>
             \A u \in Range(to_infer) :
                /\ dest'[u] # NaN =>
                      /\ u \notin Range(to_infer')
                      /\ u \in Range(inferred')
                      /\ level'[u] = round
                /\ dest'[u] = NaN => u \in Range(to_infer')
       /\ pc \in {"fallback", "final"} =>
             \A u \in UIDs \ Range(to_infer) :
                /\ dest[u] # NaN
                /\ dest'[u] = dest[u]
                /\ level'[u] = level[u]
                /\ u \notin Range(to_infer')]_vars
\* a finished run in which round 1 resolved one tap, round 2 another, and a
\* third tap has its Round 0 destination and level 0
C14_Witness ==
    /\ pc = "done"
    /\ \E u, v, w \in UIDs :
          /\ level[u] = 1 /\ dest[u] \in Stops
          /\ level[v] = 2 /\ dest[v] \in Stops
          /\ level[w] = 0 /\ dest[w] = Round0Value(w)

\* the taps of the card of u on the service day of u
SameCardDay(u) == {v \in UIDs : card(v) = card(u) /\ day(v) = day(u)}
\* the rows identify_transfers has been given
Linking == Range(out) \cup remaining

\* C15: the split on the number of taps per (card, service day) is disjoint
\* and exhaustive: while identify_transfers runs, its rows are exactly the
\* taps of card-days with two taps or more and no other tap has a Round 0
\* destination or level; when assign_linked_trips has run, every tap of a
\* card-day with one tap went into it labelled Transfer = False and without
\* destination, and every tap is in exactly one of the two parts.
C15_SplitByTapCount ==
    /\ pc = "transfers" =>
          \A u \in UIDs :
             /\ u \in Linking <=> Cardinality(SameCardDay(u)) >= 2
             /\ u \notin Linking <=> Cardinality(SameCardDay(u)) = 1
             /\ u \notin Linking => dest[u] = NaN /\ level[u] = NaN
    /\ (pc = "fallback" /\ round = 1) =>
          \A u \in UIDs :
             /\ u \in Range(out) <=> Cardinality(SameCardDay(u)) >= 2
             /\ Cardinality(SameCardDay(u)) = 1 =>
                   /\ u \notin Range(out)
                   /\ pre.Transfer[u] = "False"
                   /\ dest[u] = NaN
                   /\ u \in Range(to_infer)
\* linking begins for a card that has a day with one tap and a day with two
\* taps
C15_Witness ==
    /\ pc = "fallback" /\ round = 1
    /\ \E u, v \in UIDs :
          /\ card(u) = card(v) /\ day(u) # day(v)
          /\ Cardinality(SameCardDay(u)) = 1
          /\ Cardinality(SameCardDay(v)) = 2
          /\ pre.Transfer[u] = "False"
          /\ u \notin Range(out) /\ v \in Range(out)

\* C17: identify_transfers stops with an internal-consistency failure when
\* its passes exceed a maximum (here the number of rows it was given, which
\* no run that resolves a tap per pass exceeds): a step taken with rows
\* remaining after that many passes is the failure, never one more pass.
C17_AbortsBeyondMaxPasses ==
    [][(pc = "transfers" /\ remaining # {} /\ rd > Cardinality(MultiTap))
          => (pc' = "abort" /\ failed' = "identify_transfers")]_vars

\* the largest number of taps one card holds
MostTapsOfACard ==
    Max({Cardinality({u \in UIDs : card(u) = c}) : c \in Cards})
\* tap u is the earliest tap of its card among the remaining rows
EarliestRemaining(u) ==
    /\ u \in remaining
    /\ \A v \in remaining : card(v) = card(u) => time(u) <= time(v)

\* C18: with a transfer-time threshold of zero or more, every pass of
\* identify_transfers over remaining rows labels each present card's
\* earliest remaining tap Transfer = False and takes it out of the remaining
\* rows; the rows that stay remaining are rows the pass had provisionally
\* marked as transfers; and the passes done, plus the one still due while
\* rows remain, never exceed the largest number of taps of one card.
C18_PassResolvesEarliestTaps ==
    /\ [][(cfg.transfer_time_threshold >= 0 /\ pc = "transfers"
             /\ remaining # {}) =>
             /\ \A u \in remaining :
                   EarliestRemaining(u) =>
                      u \notin remaining' /\ Transfer'[u] = "False"
             /\ \A u \in remaining \cap remaining' : prov'[u] = "True"
             /\ remaining' \subseteq remaining]_vars
    /\ []((cfg.transfer_time_threshold >= 0 /\ pc = "transfers") =>
             rd - 1 + (IF remaining = {} THEN 0 ELSE 1) <= MostTapsOfACard)
\* the threshold is 1 or more, the first pass demoted provisional transfers
\* and the second pass made the earliest of them a trip start
C18_Witness ==
    /\ cfg.transfer_time_threshold >= 0
    /\ pc = "transfers" /\ rd = 3 /\ remaining = {}
    /\ passSet # {} /\ passSet # MultiTap
    /\ \E u \in passSet :
          /\ prov[u] = "False" /\ Transfer[u] = "False"
          /\ \E w \in MultiTap \ passSet :
                card(w) = card(u) /\ day(w) = day(u) /\ time(w) < time(u)

\* tap u is the earliest tap of its card on its service day
EarliestOfDay(u) == \A v \in SameCardDay(u) : time(u) <= time(v)

\* C19: in the final output the earliest tap of every (card, service day) is
\* labelled Transfer = False, whatever the thresholds and distances and
\* whichever pass labelled it.
C19_EarliestTapOfDayStartsTrip ==
    pc = "done" =>
        \A u \in UIDs : EarliestOfDay(u) => Transfer[u] = "False"
\* a finished run for a card with taps on two days, where the first tap of
\* the second day follows the last tap of the day before within the
\* threshold and on another route, and a later tap that day is a transfer
C19_Witness ==
    /\ pc = "done"
    /\ \E u, v, w \in UIDs :
          /\ card(w) = card(u) /\ day(w) < day(u)
          /\ EarliestOfDay(u) /\ Transfer[u] = "False"
          /\ route(w) # route(u)
          /\ time(u) - time(w) >= 0
          /\ time(u) - time(w) <= cfg.transfer_time_threshold
          /\ v \in SameCardDay(u) /\ Transfer[v] = "True"

\* linked trip L is a candidate for tap u in the round in progress by the
\* merge on the Same columns and the hour and day-of-week filters
MatchesOtherFilters(u, L) ==
    /\ \A col \in RoundRule.same : ColumnOf(u, col) = L[col]
    /\ L.destination_stop_code # NaN
    /\ RoundRule.hour # NaN => Abs(Hour(time(u)) - L.hour) <= RoundRule.hour
    /\ RoundRule.dow = "Similar Days" =>
          \E d \in DOMAIN SimilarDow :
              Dow(day(u)) = d /\ L.dow \in SimilarDow[d] \cup {d}
\* the trip start of L is no more than the round's day-window away from u
WithinDayWindow(u, L) ==
    Abs(time(u) - L.tap_datetime) <= RoundRule.timeframe * DayLen
\* the trip start of L is exactly the round's day-window before u
ExactlyDayWindowBefore(u, L) ==
    time(u) - L.tap_datetime = RoundRule.timeframe * DayLen

\* C20: in a fallback round a candidate trip is discarded only when its trip
\* start differs from the tap's time by more than the round's day-window, a
\* candidate exactly that many days away being kept: a tap of to_infer is
\* resolved in the round only if a linked trip passes the round's other
\* filters and starts within the day-window of the tap, and it is resolved
\* whenever such a trip starts exactly the day-window before it.
C20_DiscardedBeyondDayWindow ==
    [][(pc = "fallback" /\ round' = round + 1) =>
          \A u \in Range(to_infer) :
             /\ u \notin Range(to_infer') =>
                   \E L \in linked_trips :
                      MatchesOtherFilters(u, L) /\ WithinDayWindow(u, L)
             /\ (\E L \in linked_trips :
                    MatchesOtherFilters(u, L) /\ ExactlyDayWindowBefore(u, L))
                   => u \notin Range(to_infer')]_vars

\* linked trip L is a candidate for tap u in the round in progress by the
\* merge on the Same columns and the filter on whole days
PassesMergeAndDays(u, L) ==
    /\ \A col \in RoundRule.same : ColumnOf(u, col) = L[col]
    /\ L.destination_stop_code # NaN
    /\ Abs(Days(time(u) - L.tap_datetime)) < RoundRule.timeframe
\* the hour rule: with an integer tolerance h the hours differ by h at most
WithinHours(u, L) ==
    RoundRule.hour # NaN => Abs(Hour(time(u)) - L.hour) <= RoundRule.hour
\* the day-of-week rule: the trip's day of week is the tap's or is in the
\* similar set configured for the tap's day of week (no entry: no similar
\* day)
SimilarDay(u, L) ==
    RoundRule.dow = "Similar Days" =>
        \/ L.dow = Dow(day(u))
        \/ /\ Dow(day(u)) \in DOMAIN SimilarDow
           /\ L.dow \in SimilarDow[Dow(day(u))]

\* C21: in a fallback round a candidate passes the hour filter exactly when
\* the hours differ by the round's integer tolerance at most, and passes the
\* day-of-week filter exactly when its day of week is the tap's or is in the
\* similar set of the tap's day of week, also for a day of week without an
\* entry in similar_dow: a tap of to_infer is resolved in the round if and
\* only if a linked trip passes the merge, the filter on days and these two
\* rules.
C21_HourAndDayOfWeekFilters ==
    [][(pc = "fallback" /\ round' = round + 1) =>
          \A u \in Range(to_infer) :
             u \notin Range(to_infer') <=>
                \E L \in linked_trips :
                   /\ PassesMergeAndDays(u, L)
                   /\ WithinHours(u, L)
                   /\ SimilarDay(u, L)]_vars

\* the rows of card c handed to identify_transfers
RowsOfCard(c) == {u \in UIDs : card(u) = c /\ Cardinality(SameCardDay(u)) >= 2}
\* the Transfer column of a run of identify_transfers over the rows of card c
\* alone, with their Round 0 destinations
LabelsOfCardAlone(c) ==
    IdentifyTransfers(RowsOfCard(c), [u \in UIDs |-> Round0Value(u)],
                      [u \in UIDs |-> "NaN"], Cardinality(RowsOfCard(c)))

\* C22: the label a tap has when the loop of identify_transfers ends depends
\* on the taps of its own card only: it is the label the tap gets in a run
\* over the rows of its card alone, so two tables that agree on a card's
\* taps, with the same lookup tables and thresholds, label that card's taps
\* alike whatever the other cards' taps are.
C22_LabelDependsOnOwnCard ==
    (pc = "transfers" /\ remaining = {}) =>
        \A c \in Cards :
            \A alone \in {LabelsOfCardAlone(c)} :
                \A u \in RowsOfCard(c) : Transfer[u] = alone[u]
\* the loop has ended for two cards; the first tap of card 2 comes in the
\* sorted rows right after a tap of card 1 of the same service day and
\* another route, and is a trip start; the next tap of card 2 is a transfer
C22_Witness ==
    /\ pc = "transfers" /\ remaining = {} /\ rd = 2
    /\ cfg.transfer_time_threshold >= 0
    /\ \E u, v \in Range(out) :
          /\ card(u) = 1 /\ card(v) = 2
          /\ \A w \in UIDs : card(w) = 1 => time(w) <= time(u)
          /\ \A w \in UIDs : card(w) = 2 => time(v) <= time(w)
          /\ day(u) = day(v) /\ route(u) # route(v)
          /\ Transfer[v] = "False"
          /\ \E w \in UIDs : card(w) = 2 /\ Transfer[w] = "True"

\* the tap of u's card tapped last before u, among all taps of the card
PrecedingTap(u) ==
    CHOOSE p \in EarlierOfCard(UIDs, u) :
        \A w \in EarlierOfCard(UIDs, u) : time(w) <= time(p)

\* C23: in the labelling identify_transfers returns, every tap labelled
\* Transfer = True has a preceding tap of its card and meets the four
\* conditions (same service day, other route, time and distance within the
\* thresholds, the distance taken from the preceding tap's Round 0
\* destination) with respect to the tap immediately before it among all
\* taps of the card, in whichever pass it was labelled.
C23_TransferRuleAgainstPrecedingTap ==
    (pc = "transfers" /\ remaining = {}) =>
        \A u \in UIDs :
            Transfer[u] = "True" =>
                /\ EarlierOfCard(UIDs, u) # {}
                /\ FourConditions(u, PrecedingTap(u),
                                  [v \in UIDs |-> Round0Value(v)])
\* two passes: the first demoted two taps of a card, the second labelled the
\* later of them a transfer, after taps of the card that the first pass
\* had resolved
C23_Witness ==
    /\ pc = "transfers" /\ remaining = {} /\ rd = 3
    /\ \E u, v \in passSet :
          /\ card(u) = card(v) /\ time(v) < time(u)
          /\ Transfer[u] = "True" /\ Transfer[v] = "False"
          /\ \E w \in MultiTap \ passSet :
                card(w) = card(u) /\ Transfer[w] = "True"

\* the taps of the linked trip of tap u
TripTaps(u) == {v \in UIDs : linked_UID[v] = linked_UID[u]}

\* C24: in the output every linked trip is made of taps of one card and one
\* service day that follow one another in that card's taps ordered by time:
\* two taps of a trip have the same card and service day, and every tap of
\* the card tapped between them is in the trip.
C24_TripWithinCardAndDay ==
    Assigned =>
        \A u \in UIDs : \A v \in TripTaps(u) :
            /\ card(v) = card(u)
            /\ day(v) = day(u)
            /\ \A w \in UIDs :
                  (card(w) = card(u) /\ time(u) < time(w) /\ time(w) < time(v))
                      => w \in TripTaps(u)
\* the output for a card with a trip of three taps on one day and a tap on
\* another day
C24_Witness ==
    /\ pc = "done"
    /\ \E u, w \in UIDs :
          /\ Cardinality(TripTaps(u)) = 3
          /\ card(w) = card(u) /\ day(w) # day(u)

\* the taps of the linked trip tap u had before the correction
TripTapsBefore(u) == {v \in UIDs : pre.linked_UID[v] = pre.linked_UID[u]}
\* the trip tap u had before the correction repeats no route
CleanBefore(u) ==
    \A v, w \in TripTapsBefore(u) : v # w => route(v) # route(w)

\* C25: the repeat-route correction changes a label only from True to
\* False; the taps of a trip without a repeated route keep their label and
\* their trip keeps its taps; every linked trip after the correction lies
\* within one linked trip of before; and there are at least as many linked
\* trips after as before.
C25_CorrectionOnlySplitsTrips ==
    (AssignRan /\ failed # "assign_ID") =>
        /\ \A u \in UIDs :
              /\ Transfer[u] # pre.Transfer[u] =>
                    pre.Transfer[u] = "True" /\ Transfer[u] = "False"
              /\ CleanBefore(u) =>
                    /\ Transfer[u] = pre.Transfer[u]
                    /\ TripTaps(u) = TripTapsBefore(u)
              /\ TripTaps(u) \subseteq TripTapsBefore(u)
        /\ Cardinality({linked_UID[u] : u \in UIDs})
              >= Cardinality({pre.linked_UID[u] : u \in UIDs})
\* a trip with a repeated route is split in two next to a trip of two taps
\* without a repeated route
C25_Witness ==
    /\ AssignRan /\ failed = "none"
    /\ \E u, v \in UIDs :
          /\ ~CleanBefore(u) /\ TripTaps(u) # TripTapsBefore(u)
          /\ CleanBefore(v) /\ Cardinality(TripTapsBefore(v)) = 2
          /\ card(u) = card(v)

\* C26: a fallback round changes nothing but the destination and the
\* inference_level of taps still in to_infer: Transfer, linked_UID and the
\* donor pool stay as they were before the first round, and every pool
\* entry has its origin and its destination from taps resolved in Round 0,
\* so no tap resolved in a round is a donor in a later round.
C26_RoundsTouchOnlyUnresolvedTaps ==
    /\ [][pc = "fallback" =>
             /\ Transfer' = Transfer
             /\ linked_UID' = linked_UID
             /\ linked_trips' = linked_trips
             /\ \A u \in UIDs \ Range(to_infer) :
                   dest'[u] = dest[u] /\ level'[u] = level[u]]_vars
    /\ [](pc \in {"fallback", "final"} =>
             \A L \in linked_trips :
                 \E f, l \in UIDs :
                    /\ level[f] = 0 /\ dest[f] # NaN
                    /\ level[l] = 0 /\ dest[l] = L.destination_stop_code
                    /\ linked_UID[f] = L.linked_UID
                    /\ linked_UID[l] = L.linked_UID
                    /\ time(f) = L.tap_datetime /\ stop(f) = L.stop_code)
\* a round has resolved the first tap of a linked trip that is in the donor
\* pool with a later tap as its origin
C26_Witness ==
    /\ pc \in {"fallback", "final"}
    /\ \E u \in UIDs : \E L \in linked_trips :
          /\ level[u] >= 1 /\ dest[u] \in Stops
          /\ L.linked_UID = linked_UID[u]
          /\ L.tap_datetime > time(u)

\* the configured rounds without a stop radius in which tap u has a
\* candidate left after the round's filters
RoundsWithCandidate(u) ==
    {k \in 1..Len(RoundList(cfg.rounds)) :
        /\ RoundList(cfg.rounds)[k].stop_code # "float"
        /\ Candidates(u, RoundList(cfg.rounds)[k], linked_trips) # {}}

\* C27: when the round loop has ended, every tap that entered the rounds and
\* has a candidate in some configured round is resolved with the number of
\* the earliest such round as its inference_level, and a tap is still
\* unresolved only if no configured round has a candidate for it.
C27_ResolvedByEarliestRound ==
    pc = "final" =>
        \A u \in UIDs :
            (u \in Range(to_infer) \/ level[u] >= 1) =>
                IF RoundsWithCandidate(u) = {}
                THEN u \in Range(to_infer)
                ELSE /\ u \notin Range(to_infer)
                     /\ level[u] = Min(RoundsWithCandidate(u))

\* ------------------------------------------- identify_valid_records
\* infer_destinations is not running
LinkIdle ==
    /\ taps = <<>>
    /\ cfg = CHOOSE c \in Configs : TRUE
    /\ pc = "idle"
    /\ dest = <<>> /\ level = <<>> /\ Transfer = <<>> /\ prov = <<>>
    /\ passSet = {} /\ remaining = {} /\ out = <<>> /\ rd = 1
    /\ linked_UID = <<>> /\ pre = <<>> /\ inferred = <<>> /\ to_infer = <<>>
    /\ linked_trips = {} /\ round = 1 /\ failed = "none"

\* at most MaxHolo records, tapped at seconds 0..MaxSecs
MaxHolo == 3
MaxSecs == 6
\* the seconds of a day
DaySecs == 4
\* the stop_code and route_id filled in for a missing one
Missing == 9999
Thresholds == {1, 2}

\* (holocard_uid, tap_datetime) before: the sort of line 188
HoloBefore(a, b) ==
    \/ a.holocard_uid < b.holocard_uid
    \/ a.holocard_uid = b.holocard_uid /\ a.tap_datetime < b.tap_datetime
RECURSIVE SortHolo(_)
SortHolo(S) ==
    IF S = {} THEN <<>>
    ELSE LET a == CHOOSE x \in S : \A y \in S \ {x} : HoloBefore(x, y)
         IN  <<a>> \o SortHolo(S \ {a})

\* the tables read: records of two cards with distinct (card, time), a
\* transaction_uid each, one record at most without stop_code or route_id,
\* and possibly one transaction_uid given twice
HoloSlots == {S \in SUBSET (Cards \X (0..MaxSecs)) : Cardinality(S) <= MaxHolo}
HoloTables ==
    UNION { LET s == SortSlots(S)
                n == Len(s)
            IN  { Column([i \in 1..n |->
                     [transaction_uid |-> IF dup /\ i = n THEN 1 ELSE i,
                      holocard_uid |-> s[i][1],
                      tap_datetime |-> s[i][2],
                      stop_code |-> IF miss = i THEN Missing ELSE 1,
                      route_id |-> IF miss = n + i THEN Missing ELSE 1,
                      valid |-> NaN,
                      invalid_reason |-> NaN]], n) :
                   dup \in BOOLEAN, miss \in {0, 1, n + 1} } :
            S \in HoloSlots }

\* Timedelta.seconds: the seconds left over after the whole days
DtSeconds(d) == d % DaySecs

\* the index of the first row of each card (groupby holocard_uid, min idx)
FirstIdx(rows) ==
    {i \in DOMAIN rows :
        \A j \in DOMAIN rows :
            rows[j].holocard_uid = rows[i].holocard_uid => i <= j}
\* secs_since_last_tap of row i of the sorted rows
SecsSinceLastTap(rows, i) ==
    IF i \in FirstIdx(rows) THEN NaN
    ELSE DtSeconds(rows[i].tap_datetime - rows[i - 1].tap_datetime)
\* criteria of rule (2); a comparison with NaN is false
DoubleTap(rows, i, thr) ==
    /\ SecsSinceLastTap(rows, i) # NaN
    /\ SecsSinceLastTap(rows, i) < thr
\* rule (1): the transaction_uid occurs more than once
DuplicateUID(rows, i) ==
    \E j \in DOMAIN rows :
        j # i /\ rows[j].transaction_uid = rows[i].transaction_uid
\* rule (3)
MissingCode(rows, i) ==
    rows[i].stop_code = Missing \/ rows[i].route_id = Missing

\* valid and invalid_reason of the sorted rows: the rules are applied in the
\* order (1), (2), (3), a later rule writing over an earlier one
ValidRecords(rows, thr) ==
    Column([i \in DOMAIN rows |->
              [rows[i] EXCEPT
                 !.valid = IF DuplicateUID(rows, i) \/ DoubleTap(rows, i, thr)
                              \/ MissingCode(rows, i)
                           THEN 0 ELSE 1,
                 !.invalid_reason =
                     IF MissingCode(rows, i) THEN 3
                     ELSE IF DoubleTap(rows, i, thr) THEN 2
                     ELSE IF DuplicateUID(rows, i) THEN 1
                     ELSE -1]],
           Len(rows))

InitValid ==
    /\ LinkIdle
    /\ FeedIdle
    /\ ImputeIdle
    /\ holo \in HoloTables
    /\ double_tap_threshold_seconds \in Thresholds
    /\ hpc = "raw"

\* HoloData.identify_valid_records
IdentifyValidRecords ==
    /\ hpc = "raw"
    /\ \E rows \in {SortHolo(Range(holo))} :
          holo' = ValidRecords(rows, double_tap_threshold_seconds)
    /\ hpc' = "done"
    /\ UNCHANGED <<double_tap_threshold_seconds, vars, feedVars, imputeVars>>

NextValid == IdentifyValidRecords
SpecValid == InitValid /\ [][NextValid]_<<vars, otherVars>>

\* the record of the same card tapped last before row i
PrecedingRecords(i) ==
    {j \in DOMAIN holo :
        /\ holo[j].holocard_uid = holo[i].holocard_uid
        /\ holo[j].tap_datetime < holo[i].tap_datetime}
SecondsSincePreceding(i) ==
    holo[i].tap_datetime
       - Max({holo[j].tap_datetime : j \in PrecedingRecords(i)})

\* C28: after identify_valid_records a record with stop_code and route_id
\* is invalid with reason 2 if and only if its card has an earlier tap and
\* the whole time since the card's tap just before it is less than
\* double_tap_threshold_seconds; a tap one or more whole days and a few
\* seconds after the tap before it is not flagged, nor is a card's first
\* tap.
C28_DoubleTapByElapsedTime ==
    hpc = "done" =>
        \A i \in DOMAIN holo :
            ~MissingCode(holo, i) =>
                ((holo[i].valid = 0 /\ holo[i].invalid_reason = 2) <=>
                    /\ PrecedingRecords(i) # {}
                    /\ SecondsSincePreceding(i)
                          < double_tap_threshold_seconds)

\* ------------------------------------------- create_feed_info_table
\* service days 1..MaxDay, at most MaxFeeds feeds with versions 1..MaxVersion
MaxDay == 3
MaxFeeds == 2
MaxVersion == 2
\* one row of feed_info after the conversions: the version as an integer
\* and the two dates
FeedRows ==
    {[gtfs_feed |-> v, feed_start_date |-> a, feed_end_date |-> b] :
        v \in 1..MaxVersion,
        a \in 1..MaxDay, b \in 1..MaxDay}
\* (pd.concat needs one feed at least)
FeedInfos == UNION {[1..n -> FeedRows] : n \in 1..MaxFeeds}

\* dates: pd.date_range(start_date, end_date - 1 day)
Dates(a, b) == a..(b - 1)
\* the cross merge of dates and feed_info, dates outer, kept where the
\* service day lies within the feed's dates
RECURSIVE CrossMerge(_, _, _)
CrossMerge(d, b, fi) ==
    IF d >= b THEN <<>>
    ELSE SelectSeq([i \in DOMAIN fi |->
                       [service_day |-> d, gtfs_feed |-> fi[i].gtfs_feed,
                        feed_start_date |-> fi[i].feed_start_date,
                        feed_end_date |-> fi[i].feed_end_date]],
                   LAMBDA r : /\ r.service_day >= r.feed_start_date
                              /\ r.service_day <= r.feed_end_date)
         \o CrossMerge(d + 1, b, fi)
\* the rows whose gtfs_feed is the largest of their service day
MostRecent(rows) ==
    SelectSeq(rows,
              LAMBDA r : \A j \in DOMAIN rows :
                            rows[j].service_day = r.service_day
                               => rows[j].gtfs_feed <= r.gtfs_feed)
\* the columns kept
KeepColumns(rows) ==
    [i \in DOMAIN rows |-> [service_day |-> rows[i].service_day,
                            gtfs_feed |-> rows[i].gtfs_feed]]

InitFeed ==
    /\ LinkIdle
    /\ ValidIdle
    /\ ImputeIdle
    /\ feed_info \in FeedInfos
    /\ start_service_day \in 1..MaxDay
    /\ end_service_day \in (start_service_day + 1)..(MaxDay + 1)
    /\ date_to_feed = <<>>
    /\ gpc = "raw"

\* GTFS.create_feed_info_table
CreateFeedInfoTable ==
    /\ gpc = "raw"
    /\ \E rows \in {MostRecent(CrossMerge(start_service_day, end_service_day,
                                          feed_info))} :
          /\ date_to_feed' = KeepColumns(rows)
          /\ gpc' = IF {rows[i].service_day : i \in DOMAIN rows}
                        \ Dates(start_service_day, end_service_day) = {}
                    THEN "done" ELSE "abort"
    /\ UNCHANGED <<feed_info, start_service_day, end_service_day, vars,
                   validVars, imputeVars>>

NextFeed == CreateFeedInfoTable
SpecFeed == InitFeed /\ [][NextFeed]_<<vars, otherVars>>

\* the feeds whose dates contain service day d
FeedsContaining(d) ==
    {i \in DOMAIN feed_info :
        feed_info[i].feed_start_date <= d /\ d <= feed_info[i].feed_end_date}

\* C29: when create_feed_info_table has written its table, every service
\* day from start_service_day up to the day before end_service_day has
\* exactly one row, with the largest version among the feeds whose dates
\* contain the day: the check of the function has stopped every run in
\* which a day has no feed or more than one.
C29_OneFeedPerServiceDay ==
    gpc = "done" =>
        \A d \in start_service_day..(end_service_day - 1) :
            /\ Cardinality({i \in DOMAIN date_to_feed :
                               date_to_feed[i].service_day = d}) = 1
            /\ \A i \in DOMAIN date_to_feed :
                  date_to_feed[i].service_day = d =>
                     /\ FeedsContaining(d) # {}
                     /\ date_to_feed[i].gtfs_feed =
                           Max({feed_info[j].gtfs_feed :
                                   j \in FeedsContaining(d)})


\* ------------------------------------------------ impute_holo_combos
\* (expansion_module.py) is checked on its own: the linking, the validity
\* flags and the feed table stay idle
MaxMonth == 3     \* months 1..MaxMonth
MaxMissing == 2   \* combinations to impute
MaxApc == 2       \* combinations of the APC
NumDows == 2      \* days of week 1..NumDows
NumTods == 2      \* times of day 1..NumTods
\* avg_boardings of the APC combinations tried
AvgValues == {1, 2}
\* the 0.5 miles of rounds 3 and 4, in the unit of DistTable
W == 2
\* a mean is <<sum, count>>; the mean of no value is null
NoMean == <<0, 0>>

Months == 1..MaxMonth
\* the feed in force in a month: the last month has the second feed
FeedOfMonth(m) == IF m < MaxMonth THEN 1 ELSE 2
Cols == {"month", "gtfs_feed", "dow", "tod", "stop_code"}
\* the (month, gtfs_feed, dow, tod, stop_code) combinations
Combos ==
    {c \in [month : Months, gtfs_feed : Feeds, dow : 1..NumDows,
            tod : 1..NumTods, stop_code : Stops] :
        c.gtfs_feed = FeedOfMonth(c.month)}
\* the order in which the tables list their combinations
Code(c) == ((c.month * 8 + c.dow) * 8 + c.tod) * 8 + c.stop_code
ComboSeqs(n) ==
    {s \in [1..n -> Combos] :
        \A i \in 1..(n - 1) : Code(s[i]) < Code(s[i + 1])}
\* missing_holo: rows of df4 without avg_boardings, one per combination;
\* times of day and stops are compared, never ordered, and the tables tried
\* begin with a combination of time of day 1 at stop 1
MissingTables ==
    {s \in UNION {ComboSeqs(n) : n \in 0..MaxMissing} :
        s # <<>> => (s[1].tod = 1 /\ s[1].stop_code = 1)}
\* df3: one row per combination of the APC, avg_boardings a sum (not null)
ApcTables ==
    UNION {{[i \in 1..n |->
               [month |-> s[i].month, gtfs_feed |-> s[i].gtfs_feed,
                dow |-> s[i].dow, tod |-> s[i].tod,
                stop_code |-> s[i].stop_code, avg_boardings |-> v[i]]] :
              s \in ComboSeqs(n), v \in [1..n -> AvgValues]} :
           n \in 0..MaxApc}

\* the columns cols of a row
Key(row, cols) == [c \in cols |-> row[c]]

\* gtfs_stop_to_stop_dist as the expansion reads it: the stops of feed f
\* lie f units apart
ImputeDist(f, x, y) == DistTable(f, f, x, y)

\* on= of the merge of missing_holo with apc in round r
MergeOn(r) ==
    CASE r = 1 -> {"month", "stop_code", "tod"}
      [] r = 2 -> {"month", "stop_code", "dow"}
      [] r = 3 -> {"gtfs_feed", "month", "dow", "tod"}
      [] r = 4 -> {"gtfs_feed", "dow", "tod"}
      [] OTHER -> {"dow", "tod", "stop_code"}
\* how= of that merge
MergeHow(r) == IF r <= 4 THEN "left" ELSE "inner"
\* the columns of the groupby of round r, which are also the on= of the
\* merge of its averages back into missing_holo
GroupBy(r) ==
    CASE r = 1 -> {"month", "stop_code", "tod"}
      [] r = 2 -> {"month", "stop_code", "dow"}
      [] r = 3 -> Cols
      [] r = 4 -> {"dow", "gtfs_feed", "tod", "stop_code"}
      [] OTHER -> {"dow", "tod", "stop_code"}

\* the rows of missing_holo.merge(apc, on=MergeOn(r), how=MergeHow(r)):
\* <<i, j>> joins row i of M with row j of A; <<i, 0>> is the row a left
\* merge keeps for a row i without a partner (the columns of apc null)
PotentialMatches(r, M, A) ==
    {p \in (DOMAIN M) \X (DOMAIN A) :
        Key(M[p[1]], MergeOn(r)) = Key(A[p[2]], MergeOn(r))}
    \cup (IF MergeHow(r) = "left"
          THEN {<<i, 0>> : i \in {i \in DOMAIN M : \A j \in DOMAIN A :
                      Key(M[i], MergeOn(r)) # Key(A[j], MergeOn(r))}}
          ELSE {})

\* the filter of round r on a row of the merge
Keep(r, M, A, p) ==
    CASE r = 1 ->
            /\ p[2] # 0
            /\ \E d \in DOMAIN SimilarDow :
                  /\ M[p[1]].dow = d
                  /\ A[p[2]].dow \in SimilarDow[d] \cup {d}
      [] r = 2 -> TRUE
      [] r \in {3, 4} ->
            /\ p[2] # 0
            /\ \E dist \in {ImputeDist(M[p[1]].gtfs_feed, M[p[1]].stop_code,
                                       A[p[2]].stop_code)} :
                  dist # NaN /\ dist < W
      [] OTHER -> Abs(M[p[1]].month - A[p[2]].month) <= r - 4

RECURSIVE SumAvg(_, _)
SumAvg(A, S) ==
    IF S = {} THEN 0
    ELSE LET p == CHOOSE q \in S : TRUE
         IN  A[p[2]].avg_boardings + SumAvg(A, S \ {p})

\* the rows of the merge taken one by one, without the groupby
GroupMeanPerRow(r, M, A, P) ==
    {[key |-> Key(M[p[1]], GroupBy(r)),
      avg_boardings |-> IF p[2] = 0 THEN NoMean
                        ELSE <<A[p[2]].avg_boardings, 1>>] : p \in P}

\* groupby(GroupBy(r)).agg({'avg_boardings':'mean'}): one row per key, the
\* mean <<sum, count>> of the values that are not null, NoMean when all are
GroupMean(r, M, A, P) ==
    {[key |-> k,
      avg_boardings |->
         LET S == {p \in P : Key(M[p[1]], GroupBy(r)) = k /\ p[2] # 0}
         IN  IF S = {} THEN NoMean ELSE <<SumAvg(A, S), Cardinality(S)>>] :
       k \in {Key(M[p[1]], GroupBy(r)) : p \in P}}

\* tmp of round r after tmp[tmp['avg_boardings'].notna()]
Tmp(r, M, A) ==
    {t \in GroupMean(r, M, A,
                     {p \in PotentialMatches(r, M, A) : Keep(r, M, A, p)}) :
        t.avg_boardings # NoMean}

WithAvg(m, a, l) ==
    [month |-> m.month, gtfs_feed |-> m.gtfs_feed, dow |-> m.dow,
     tod |-> m.tod, stop_code |-> m.stop_code,
     avg_boardings |-> a, imputation_level |-> l]

RECURSIVE SeqOfSet(_)
SeqOfSet(S) ==
    IF S = {} THEN <<>>
    ELSE LET x == CHOOSE y \in S : TRUE IN <<x>> \o SeqOfSet(S \ {x})

\* missing_holo.merge(tmp, on=GroupBy(r), how='left'): every row of
\* missing_holo once per row of tmp with its key, or once with nulls
RECURSIVE MergeBack(_, _, _, _)
MergeBack(r, M, T, n) ==
    IF n = 0 THEN <<>>
    ELSE LET S == {t \in T : t.key = Key(M[n], GroupBy(r))}
         IN  MergeBack(r, M, T, n - 1) \o
             (IF S = {} THEN <<WithAvg(M[n], NoMean, NaN)>>
              ELSE SeqOfSet({WithAvg(M[n], t.avg_boardings, r) : t \in S}))

\* .drop(columns=['avg_boardings', 'imputation_level'])
DropAvg(rows) == [i \in DOMAIN rows |-> Key(rows[i], Cols)]

InitImpute ==
    /\ LinkIdle
    /\ ValidIdle
    /\ FeedIdle
    /\ missing_holo \in MissingTables
    /\ apc \in {a \in ApcTables :
                  \A j \in DOMAIN a :
                     Key(a[j], Cols) \notin Range(missing_holo)}
    /\ imputed = <<>>
    /\ missing_holo_n = Len(missing_holo)
    /\ impute_rd = 0
    /\ ipc = "run"

\* one round of impute_holo_combos, with its quality check and its log
\* update (which divides by missing_holo_n)
ImputeRound ==
    /\ ipc = "run"
    /\ impute_rd < 6
    /\ \E r \in {impute_rd + 1} :
       \E merged \in {MergeBack(r, missing_holo, Tmp(r, missing_holo, apc),
                                Len(missing_holo))} :
       \E got \in {SelectSeq(merged, LAMBDA x : x.avg_boardings # NoMean)} :
       \E rest \in {SelectSeq(merged, LAMBDA x : x.avg_boardings = NoMean)} :
          /\ impute_rd' = r
          /\ imputed' = imputed \o got
          /\ missing_holo' = DropAvg(rest)
          /\ ipc' = IF Len(rest) + Len(imputed) + Len(got) # missing_holo_n
                    THEN "AssertionError"
                    ELSE IF missing_holo_n = 0 THEN "ZeroDivisionError"
                    ELSE "run"
    /\ UNCHANGED <<apc, missing_holo_n, vars, validVars, feedVars>>

\* return imputed, missing_holo
ImputeReturn ==
    /\ ipc = "run"
    /\ impute_rd = 6
    /\ ipc' = "done"
    /\ UNCHANGED <<missing_holo, apc, imputed, missing_holo_n, impute_rd,
                   vars, validVars, feedVars>>

NextImpute == ImputeRound \/ ImputeReturn
SpecImpute == InitImpute /\ [][NextImpute]_<<vars, otherVars>>


\* the combination of a row of imputed
ComboOf(row) == Key(row, Cols)
\* the combinations still missing when round r began
StillMissingAt(r) ==
    {ComboOf(imputed[i]) :
        i \in {j \in DOMAIN imputed : imputed[j].imputation_level >= r}}
    \cup Range(missing_holo)
\* APC combination a is a match of round r for combination d
RoundMatches(r, d, a) ==
    CASE r = 1 -> /\ d.month = a.month /\ d.stop_code = a.stop_code
                  /\ d.tod = a.tod
                  /\ \E w \in DOMAIN SimilarDow :
                        d.dow = w /\ a.dow \in SimilarDow[w] \cup {w}
      [] r = 2 -> d.month = a.month /\ d.stop_code = a.stop_code
                  /\ d.dow = a.dow
      [] r = 3 -> /\ d.gtfs_feed = a.gtfs_feed /\ d.month = a.month
                  /\ d.dow = a.dow /\ d.tod = a.tod
                  /\ ImputeDist(d.gtfs_feed, d.stop_code, a.stop_code) < W
      [] r = 4 -> /\ d.gtfs_feed = a.gtfs_feed
                  /\ d.dow = a.dow /\ d.tod = a.tod
                  /\ ImputeDist(d.gtfs_feed, d.stop_code, a.stop_code) < W
      [] r = 5 -> /\ d.dow = a.dow /\ d.tod = a.tod
                  /\ d.stop_code = a.stop_code
                  /\ Abs(d.month - a.month) <= 1
      [] OTHER -> /\ d.dow = a.dow /\ d.tod = a.tod
                  /\ d.stop_code = a.stop_code
                  /\ Abs(d.month - a.month) <= 2
\* combinations c and d receive the same average in round r
SharesAverage(r, c, d) ==
    CASE r = 1 -> c.month = d.month /\ c.stop_code = d.stop_code
                  /\ c.tod = d.tod
      [] r = 2 -> c.month = d.month /\ c.stop_code = d.stop_code
                  /\ c.dow = d.dow
      [] r = 3 -> c = d
      [] r = 4 -> /\ c.gtfs_feed = d.gtfs_feed /\ c.dow = d.dow
                  /\ c.tod = d.tod /\ c.stop_code = d.stop_code
      [] OTHER -> c.dow = d.dow /\ c.tod = d.tod
                  /\ c.stop_code = d.stop_code
\* round r yields an average for combination c: a combination still
\* missing in round r, with which c shares its average, has a match
Yields(r, c) ==
    \E d \in StillMissingAt(r) : \E j \in DOMAIN apc :
        SharesAverage(r, c, d) /\ RoundMatches(r, d, apc[j])

=============================================================================
